---- MODULE Spec2Model ----
(***************************************************************************)
(* The phase/countdown state machine of PomodoroApp (src/main.py).         *)
(*                                                                         *)
(* Every handler of the application is an operator from a record of the    *)
(* object's fields to the record after the handler has run; an action of   *)
(* the specification applies one handler to the current fields.  Reactive  *)
(* attributes run their watcher synchronously inside the assignment, and   *)
(* only when the assigned value differs from the stored one.               *)
(***************************************************************************)
EXTENDS Integers, Sequences, FiniteSets, TLC

VARIABLES
    time_left,      \* reactive: seconds left in the current phase
    is_running,     \* reactive: the countdown is running
    session_count,  \* reactive: completed work phases
    phase,          \* reactive: "work", "short_break" or "long_break"
    tick_sound,     \* reactive: name of the selected tick preset
    _tick_path,     \* file played on every tick
    _tick_timer,    \* handle of the 1-second interval timer, or None
    live_timers,    \* interval timers of the event loop that are not stopped
    due,            \* the interval has elapsed: the timer's callback is due
    player_up,      \* environment: the playback command can be spawned
    crashed,        \* an exception left a handler (the application ends)
    played,         \* files handed to the player by the last handler
    op,             \* history: the last handler that ran
    before,         \* history: time_left and is_running when it started
    was_due,        \* history: a callback was due when it started
    breaks,         \* history: the break phases entered since Init, in order
    watching,       \* the behaviour records the combinations it visits
    seen,           \* history: the (phase, running) combinations visited
    calls,          \* history (countdown runs): tick callbacks so far
    tick_signals,   \* history (countdown runs): tick files played so far
    bell_signals,   \* history (countdown runs): bell files played so far
    start,          \* history (countdown runs): the state the run began in
    rng,            \* state of the random module's shared generator
    files,          \* the WAV files written, by path
    first,          \* history: what the first write of each file held
    log             \* history: the names rendered since Init, in order

fields == <<time_left, is_running, session_count, phase, tick_sound,
            _tick_path, _tick_timer, live_timers, due>>
runvars == <<calls, tick_signals, bell_signals, start>>
history == <<played, op, before, was_due, breaks, watching, seen>>
sounds == <<rng, files, first, log>>
vars == <<fields, player_up, crashed, history, runvars, sounds>>

\* ------------------------------------------------------------- constants

WORK_SECONDS == 1500
SHORT_BREAK_SECONDS == 300
LONG_BREAK_SECONDS == 900
SESSIONS_BEFORE_LONG_BREAK == 4

TICK_SOUNDS ==
    <<"Mechanical Clock", "Soft Click", "Woodblock", "Metronome", "Drip",
      "Typewriter", "Pulse", "Chirp", "Snap", "Sonar">>

\* The countdown stops being followed once this many work phases are done.
MaxSessions == 8

None == "None"
TimerHandle == "Timer"

TickSoundNames == {TICK_SOUNDS[i] : i \in 1..Len(TICK_SOUNDS)}

\* The file of a preset: self._tick_dir / f"{name}.wav".
WavPath(name) == <<"tick_dir", name, ".wav">>

\* self._sound_paths after construction: one file per name of TICK_SOUNDS.
_sound_paths == [name \in TickSoundNames |-> WavPath(name)]

\* self._bell_path = self._tick_dir / "bell.wav".
_bell_path == <<"tick_dir", "bell", ".wav">>

\* What the sound picker returns in the runs: one of two presets of the
\* catalogue, or the empty name of a dismissed picker.
PickerNames == {"Metronome", "Snap", ""}

\* The names handed to _on_sound_picked by a caller that is not the picker:
\* the above and a name that is in no catalogue.
AnyNames == PickerNames \cup {"Gong"}

\* ------------------------------------------------------------- synthesis

sample_rate == 44100

\* random.seed(42)
SEED == 42

\* The shared generator is a linear congruential one on this many states.
RngModulus == 16

\* The samples at the head of a buffer that are followed one by one.
MaxFollowed == 3

RngStates == 0..(RngModulus - 1)

\* random.seed(seed): the generator's state is a function of the seed.
Seeded(seed) == seed % RngModulus

\* One draw of random.uniform: the generator moves on and the value drawn
\* is a function of its new state.
RngNext(x) == (5 * x + 3) % RngModulus

\* The branches of _generate_sound: the duration in milliseconds (0.035 s
\* is 35), whether the sample loop draws noise, and the peak amplitude.
Presets ==
    [name \in TickSoundNames |->
        CASE name = "Mechanical Clock" -> [ms |-> 35, noise |-> TRUE, peak |-> 12000]
          [] name = "Soft Click" -> [ms |-> 15, noise |-> FALSE, peak |-> 8000]
          [] name = "Woodblock" -> [ms |-> 40, noise |-> FALSE, peak |-> 10000]
          [] name = "Metronome" -> [ms |-> 25, noise |-> FALSE, peak |-> 14000]
          [] name = "Drip" -> [ms |-> 60, noise |-> FALSE, peak |-> 10000]
          [] name = "Typewriter" -> [ms |-> 12, noise |-> TRUE, peak |-> 14000]
          [] name = "Pulse" -> [ms |-> 50, noise |-> FALSE, peak |-> 16000]
          [] name = "Chirp" -> [ms |-> 40, noise |-> FALSE, peak |-> 10000]
          [] name = "Snap" -> [ms |-> 8, noise |-> TRUE, peak |-> 16000]
          [] name = "Sonar" -> [ms |-> 150, noise |-> FALSE, peak |-> 8000]]

\* The bell of _generate_bell_sound: one second, no noise.
BellPreset == [ms |-> 1000, noise |-> FALSE, peak |-> 16000]

\* Mutant: the sample count is rounded to the nearest integer.
n_samples_rounded(ms) == (sample_rate * ms + 500) \div 1000

\* n_samples = int(sample_rate * duration): the product truncated.  (The
\* double product truncates to the same integer as the exact one for every
\* duration of the table.)
n_samples(ms) == (sample_rate * ms) \div 1000

\* The sample loop over i = from .. upto - 1 with the generator in state
\* x: the samples in order and the generator's state after them.  A
\* sample is the preset's closed-form term at i and the noise drawn for it.
RECURSIVE SampleLoop(_, _, _, _, _)
SampleLoop(name, noisy, x, from, upto) ==
    IF from >= upto
    THEN [rng |-> x, samples |-> <<>>]
    ELSE LET drawn == IF noisy THEN RngNext(x) ELSE x
             rest == SampleLoop(name, noisy, drawn, from + 1, upto)
         IN  [rng |-> rest.rng,
              samples |-> <<[term |-> <<name, from>>,
                             noise |-> IF noisy THEN drawn ELSE -1]>>
                          \o rest.samples]

Min(a, b) == IF a < b THEN a ELSE b

\* The buffer written for a preset by a generator in state x, with the
\* generator's state after it: the sample count and the followed head.
Rendered(name, preset, x) ==
    LET n == n_samples(preset.ms)
        loop == SampleLoop(name, preset.noise, x, 0, Min(n, MaxFollowed))
    IN  [rng |-> loop.rng,
         buffer |-> [n_samples |-> n, peak |-> preset.peak,
                     head |-> loop.samples]]

\* wave.open(path, "wb") and writeframes: the file at path holds buffer.
Written(fs, path, buffer) ==
    [q \in DOMAIN fs \cup {path} |-> IF q = path THEN buffer ELSE fs[q]]

\* Mutant: the generator is not reseeded at the start of a render.
_generate_sound_no_seed(g, name, path) ==
    IF name \in DOMAIN Presets
    THEN LET r == Rendered(name, Presets[name], g.rng)
         IN  [rng |-> r.rng, files |-> Written(g.files, path, r.buffer)]
    ELSE g

\* g is the generator's state and the files; a name of no branch returns
\* after the reseeding, with no file written.
_generate_sound(g, name, path) ==
    LET seeded == Seeded(SEED)
    IN  IF name \in DOMAIN Presets
        THEN LET r == Rendered(name, Presets[name], seeded)
             IN  [rng |-> r.rng, files |-> Written(g.files, path, r.buffer)]
        ELSE [g EXCEPT !.rng = seeded]

_generate_bell_sound(g, path) ==
    LET r == Rendered("bell", BellPreset, g.rng)
    IN  [rng |-> r.rng, files |-> Written(g.files, path, r.buffer)]

\* PomodoroApp.__init__ from a generator in state x: the presets of
\* TICK_SOUNDS rendered in order, then the bell.
RECURSIVE RenderFrom(_, _)
RenderFrom(g, k) ==
    IF k > Len(TICK_SOUNDS)
    THEN g
    ELSE RenderFrom(_generate_sound(g, TICK_SOUNDS[k], WavPath(TICK_SOUNDS[k])),
                    k + 1)

Constructed(x) ==
    _generate_bell_sound(RenderFrom([rng |-> x, files |-> <<>>], 1), _bell_path)

\* ------------------------------------------------------------- handlers

\* The object's fields, with what the running handler has played and
\* whether an exception is propagating out of it.
Self ==
    [time_left |-> time_left, is_running |-> is_running,
     session_count |-> session_count, phase |-> phase,
     tick_sound |-> tick_sound, _tick_path |-> _tick_path,
     _tick_timer |-> _tick_timer, live_timers |-> live_timers,
     due |-> due, played |-> <<>>, raised |-> FALSE]

\* subprocess.Popen of the platform's player: the file is handed over, or
\* Popen raises (no such command) and nothing catches it.
_play_tick(s, path) ==
    IF player_up
    THEN [s EXCEPT !.played = Append(@, path)]
    ELSE [s EXCEPT !.raised = TRUE]

\* set_interval starts a timer that first sleeps for its interval.
_start_tick(s) ==
    IF s._tick_timer = None
    THEN [s EXCEPT !._tick_timer = TimerHandle, !.live_timers = @ + 1]
    ELSE s

\* Mutant: the handle is dropped and the timer is left going.
_stop_tick_drops_handle(s) ==
    IF s._tick_timer # None
    THEN [s EXCEPT !._tick_timer = None]
    ELSE s

\* Mutant: the timer is stopped and its handle kept.
_stop_tick_keeps_handle(s) ==
    IF s._tick_timer # None
    THEN [s EXCEPT !.live_timers = @ - 1, !.due = FALSE]
    ELSE s

\* Timer.stop cancels the timer's task, a callback that is due with it.
_stop_tick(s) ==
    IF s._tick_timer # None
    THEN [s EXCEPT !._tick_timer = None, !.live_timers = @ - 1,
                   !.due = FALSE]
    ELSE s

RECURSIVE _advance_phase(_)

\* Mutant: the watcher advances only below zero.
watch_time_left_below_zero(s, value) ==
    IF value < 0 THEN _advance_phase(s) ELSE s

watch_time_left(s, value) ==
    IF value <= 0 THEN _advance_phase(s) ELSE s

\* Assignment to the reactive time_left: stored, and the watcher called,
\* only when the value changes.
set_time_left(s, value) ==
    IF value = s.time_left
    THEN s
    ELSE watch_time_left([s EXCEPT !.time_left = value], value)

\* Mutant: the long-break test reads the count before it is incremented.
_advance_phase_count_before(s) ==
    LET s1 == _stop_tick([s EXCEPT !.is_running = FALSE])
        s2 == _play_tick(s1, _bell_path)
    IN  IF s2.raised THEN s2
        ELSE IF s2.phase = "work"
        THEN LET s3 == [s2 EXCEPT !.session_count = @ + 1]
             IN  IF s2.session_count % SESSIONS_BEFORE_LONG_BREAK = 0
                 THEN set_time_left([s3 EXCEPT !.phase = "long_break"],
                                    LONG_BREAK_SECONDS)
                 ELSE set_time_left([s3 EXCEPT !.phase = "short_break"],
                                    SHORT_BREAK_SECONDS)
        ELSE set_time_left([s2 EXCEPT !.phase = "work"], WORK_SECONDS)

\* Mutant: every session from the fourth on is followed by the long break.
_advance_phase_threshold(s) ==
    LET s1 == _stop_tick([s EXCEPT !.is_running = FALSE])
        s2 == _play_tick(s1, _bell_path)
    IN  IF s2.raised THEN s2
        ELSE IF s2.phase = "work"
        THEN LET s3 == [s2 EXCEPT !.session_count = @ + 1]
             IN  IF s3.session_count >= SESSIONS_BEFORE_LONG_BREAK
                 THEN set_time_left([s3 EXCEPT !.phase = "long_break"],
                                    LONG_BREAK_SECONDS)
                 ELSE set_time_left([s3 EXCEPT !.phase = "short_break"],
                                    SHORT_BREAK_SECONDS)
        ELSE set_time_left([s2 EXCEPT !.phase = "work"], WORK_SECONDS)

\* Mutant: every phase advance counts a session.
_advance_phase_counts_every(s) ==
    LET s1 == _stop_tick([s EXCEPT !.is_running = FALSE])
        s2 == _play_tick(s1, _bell_path)
    IN  IF s2.raised THEN s2
        ELSE LET s3 == [s2 EXCEPT !.session_count = @ + 1]
             IN  IF s2.phase = "work"
                 THEN IF s3.session_count % SESSIONS_BEFORE_LONG_BREAK = 0
                      THEN set_time_left([s3 EXCEPT !.phase = "long_break"],
                                         LONG_BREAK_SECONDS)
                      ELSE set_time_left([s3 EXCEPT !.phase = "short_break"],
                                         SHORT_BREAK_SECONDS)
                 ELSE set_time_left([s3 EXCEPT !.phase = "work"], WORK_SECONDS)

\* Mutant: the next phase starts by itself, the timer left running.
_advance_phase_keeps_running(s) ==
    LET s2 == _play_tick(s, _bell_path)
    IN  IF s2.raised THEN s2
        ELSE IF s2.phase = "work"
        THEN LET s3 == [s2 EXCEPT !.session_count = @ + 1]
             IN  IF s3.session_count % SESSIONS_BEFORE_LONG_BREAK = 0
                 THEN set_time_left([s3 EXCEPT !.phase = "long_break"],
                                    LONG_BREAK_SECONDS)
                 ELSE set_time_left([s3 EXCEPT !.phase = "short_break"],
                                    SHORT_BREAK_SECONDS)
        ELSE set_time_left([s2 EXCEPT !.phase = "work"], WORK_SECONDS)

_advance_phase(s) ==
    LET s1 == _stop_tick([s EXCEPT !.is_running = FALSE])
        s2 == _play_tick(s1, _bell_path)
    IN  IF s2.raised THEN s2
        ELSE IF s2.phase = "work"
        THEN LET s3 == [s2 EXCEPT !.session_count = @ + 1]
             IN  IF s3.session_count % SESSIONS_BEFORE_LONG_BREAK = 0
                 THEN set_time_left([s3 EXCEPT !.phase = "long_break"],
                                    LONG_BREAK_SECONDS)
                 ELSE set_time_left([s3 EXCEPT !.phase = "short_break"],
                                    SHORT_BREAK_SECONDS)
        ELSE set_time_left([s2 EXCEPT !.phase = "work"], WORK_SECONDS)

\* Mutant: the callback stops decrementing at one second left.
_tick_stops_at_one(s) ==
    IF s.time_left > 1
    THEN LET s1 == set_time_left(s, s.time_left - 1)
         IN  IF s1.raised THEN s1 ELSE _play_tick(s1, s1._tick_path)
    ELSE s

\* Mutant: the callback plays the default preset's file.
_tick_plays_default(s) ==
    IF s.time_left > 0
    THEN LET s1 == set_time_left(s, s.time_left - 1)
         IN  IF s1.raised THEN s1
             ELSE _play_tick(s1, _sound_paths["Metronome"])
    ELSE s

_tick(s) ==
    IF s.time_left > 0
    THEN LET s1 == set_time_left(s, s.time_left - 1)
         IN  IF s1.raised THEN s1 ELSE _play_tick(s1, s1._tick_path)
    ELSE s

\* Mutant: pausing leaves the interval timer going.
action_toggle_timer_no_stop(s) ==
    LET s1 == [s EXCEPT !.is_running = ~ s.is_running]
    IN  IF s1.is_running THEN _start_tick(s1) ELSE s1

action_toggle_timer(s) ==
    LET s1 == [s EXCEPT !.is_running = ~ s.is_running]
    IN  IF s1.is_running THEN _start_tick(s1) ELSE _stop_tick(s1)

durations(p) ==
    CASE p = "work" -> WORK_SECONDS
      [] p = "short_break" -> SHORT_BREAK_SECONDS
      [] p = "long_break" -> LONG_BREAK_SECONDS

\* Mutant: reset always loads the work duration.
action_reset_timer_to_work(s) ==
    LET s1 == _stop_tick([s EXCEPT !.is_running = FALSE])
    IN  set_time_left(s1, WORK_SECONDS)

\* Mutant: the durations table has no entry for the long break, and the
\* lookup raises.
action_reset_timer_key_error(s) ==
    LET s1 == _stop_tick([s EXCEPT !.is_running = FALSE])
    IN  IF s1.phase = "long_break"
        THEN [s1 EXCEPT !.raised = TRUE]
        ELSE set_time_left(s1, durations(s1.phase))

action_reset_timer(s) ==
    LET s1 == _stop_tick([s EXCEPT !.is_running = FALSE])
    IN  set_time_left(s1, durations(s1.phase))

\* Mutant: skip advances the phase only while the countdown runs.
action_skip_only_running(s) ==
    IF s.is_running
    THEN _advance_phase(_stop_tick([s EXCEPT !.is_running = FALSE]))
    ELSE s

action_skip(s) ==
    _advance_phase(_stop_tick([s EXCEPT !.is_running = FALSE]))

\* Mutant: the watcher leaves the file of the previous preset.
watch_tick_sound_no_update(s, value) == s

watch_tick_sound(s, value) ==
    IF value \in DOMAIN _sound_paths
    THEN [s EXCEPT !._tick_path = _sound_paths[value]]
    ELSE s

\* Assignment to the reactive tick_sound.
set_tick_sound(s, value) ==
    IF value = s.tick_sound
    THEN s
    ELSE watch_tick_sound([s EXCEPT !.tick_sound = value], value)

_on_sound_picked(s, name) ==
    IF name # "" THEN set_tick_sound(s, name) ELSE s

\* ------------------------------------------------------------- actions

\* The fields after a handler returned s; an exception that left the
\* handler ends the application.
Commit(s, name) ==
    /\ time_left' = s.time_left
    /\ is_running' = s.is_running
    /\ session_count' = s.session_count
    /\ phase' = s.phase
    /\ tick_sound' = s.tick_sound
    /\ _tick_path' = s._tick_path
    /\ _tick_timer' = s._tick_timer
    /\ live_timers' = s.live_timers
    /\ due' = s.due
    /\ played' = s.played
    /\ crashed' = s.raised
    /\ op' = name
    /\ before' = [time_left |-> time_left, is_running |-> is_running]
    /\ was_due' = due
    /\ breaks' = IF s.phase # phase /\ s.phase # "work"
                 THEN Append(breaks, s.phase)
                 ELSE breaks
    /\ seen' = IF watching THEN seen \cup {<<s.phase, s.is_running>>}
               ELSE seen
    /\ UNCHANGED <<player_up, watching, sounds>>

\* A handler runs while the application lives, and the run is followed
\* while at most MaxSessions work phases are done.
Runs(s, name) ==
    /\ ~ crashed
    /\ s.session_count <= MaxSessions
    /\ Commit(s, name)

\* The state after PomodoroApp.__init__ and the class's reactive defaults.
InitFields ==
    /\ time_left = WORK_SECONDS
    /\ is_running = FALSE
    /\ session_count = 0
    /\ phase = "work"
    /\ tick_sound = "Metronome"
    /\ _tick_path = _sound_paths["Metronome"]
    /\ _tick_timer = None
    /\ live_timers = 0
    /\ due = FALSE
    /\ crashed = FALSE
    /\ played = <<>>
    /\ op = "init"
    /\ before = [time_left |-> WORK_SECONDS, is_running |-> FALSE]
    /\ was_due = FALSE
    /\ breaks = <<>>
    /\ seen = {<<"work", FALSE>>}

NoRun ==
    /\ calls = 0
    /\ tick_signals = 0
    /\ bell_signals = 0
    /\ start = [phase |-> "work", session_count |-> 0,
                time_left |-> WORK_SECONDS]

\* The generator and the files after __init__, whatever state the
\* generator was in at the start of the process.
InitSounds ==
    \E x \in RngStates :
        /\ rng = Constructed(x).rng
        /\ files = Constructed(x).files
        /\ first = files
        /\ log = <<>>

Init ==
    InitFields /\ NoRun /\ InitSounds /\ player_up = TRUE /\ watching = FALSE

\* A second has passed on a live interval timer: its callback is due.
TimerDue ==
    /\ ~ crashed
    /\ live_timers > 0
    /\ ~ due
    /\ due' = TRUE
    /\ UNCHANGED <<time_left, is_running, session_count, phase, tick_sound,
                   _tick_path, _tick_timer, live_timers>>
    /\ UNCHANGED <<player_up, crashed, history, runvars, sounds>>

\* The interval timer runs its callback, and sleeps again if still live.
TickStep ==
    /\ live_timers > 0
    /\ due
    /\ Runs(_tick([Self EXCEPT !.due = FALSE]), "tick")

Tick == TickStep /\ UNCHANGED runvars

ToggleTimer ==
    Runs(action_toggle_timer(Self), "toggle_timer") /\ UNCHANGED runvars

ResetTimer ==
    Runs(action_reset_timer(Self), "reset_timer") /\ UNCHANGED runvars

Skip == Runs(action_skip(Self), "skip") /\ UNCHANGED runvars

\* The sound picker is dismissed with name.
PickOne(name) ==
    Runs(_on_sound_picked(Self, name), "pick_sound") /\ UNCHANGED runvars

PickSound(names) == \E name \in names : PickOne(name)

Next ==
    Tick \/ ToggleTimer \/ ResetTimer \/ Skip \/ PickSound(PickerNames)
    \/ TimerDue

Spec == Init /\ [][Next]_vars

\* ---------------------------------------- callers with any preset name

NextAnyName ==
    Tick \/ ToggleTimer \/ ResetTimer \/ Skip \/ PickSound(AnyNames)
    \/ TimerDue

SpecAnyName == Init /\ [][NextAnyName]_vars

\* ---------------------------------------- a player that can be lost

\* The environment: from now on the playback command cannot be spawned.
PlayerLost ==
    /\ ~ crashed
    /\ player_up
    /\ player_up' = FALSE
    /\ UNCHANGED <<fields, crashed, history, runvars, sounds>>

NextBackend ==
    Tick \/ ToggleTimer \/ ResetTimer \/ Skip \/ PickSound(PickerNames)
    \/ TimerDue \/ PlayerLost

SpecBackend == Init /\ [][NextBackend]_vars

\* ---------------------------------------- the combinations visited

InitCombos ==
    InitFields /\ NoRun /\ InitSounds /\ player_up = TRUE /\ watching = TRUE

SpecCombos == InitCombos /\ [][Next]_vars

\* ---------------------------------------- countdown runs: tick() only

\* The time_left values a run starts from, for a phase of duration d.
RunLefts(d) == {1, 2, 40, d}

\* The states a run starts in: the timer running, in a phase and session
\* count the program reaches (phase, completed sessions), the fresh work
\* phase among them.
RunPhases ==
    {<<"work", 0>>, <<"work", 3>>, <<"short_break", 1>>, <<"long_break", 4>>}

RunStarts ==
    UNION {{[phase |-> pc[1], session_count |-> pc[2], time_left |-> n] :
                n \in RunLefts(durations(pc[1]))} : pc \in RunPhases}

InitRun ==
    /\ start \in RunStarts
    /\ time_left = start.time_left
    /\ is_running = TRUE
    /\ session_count = start.session_count
    /\ phase = start.phase
    /\ tick_sound = "Metronome"
    /\ _tick_path = _sound_paths["Metronome"]
    /\ _tick_timer = TimerHandle
    /\ live_timers = 1
    /\ due = FALSE
    /\ was_due = FALSE
    /\ player_up = TRUE
    /\ crashed = FALSE
    /\ played = <<>>
    /\ op = "toggle_timer"
    /\ before = [time_left |-> start.time_left, is_running |-> FALSE]
    /\ breaks = <<>>
    /\ watching = FALSE
    /\ seen = {<<start.phase, TRUE>>}
    /\ calls = 0
    /\ tick_signals = 0
    /\ bell_signals = 0
    /\ InitSounds

Count(seq, x) == Cardinality({i \in DOMAIN seq : seq[i] = x})

\* A tick callback of the run, with the signals it gave counted.  The run
\* is followed for one callback more than it has seconds.
TickRun ==
    /\ calls <= start.time_left
    /\ TickStep
    /\ calls' = calls + 1
    /\ bell_signals' = bell_signals + Count(played', _bell_path)
    /\ tick_signals' = tick_signals + Len(played') - Count(played', _bell_path)
    /\ UNCHANGED start

NextRun == TickRun \/ TimerDue

SpecRun == InitRun /\ [][NextRun]_vars

\* ---------------------------------------- renders in any order

\* The renders of a behaviour that are followed.
MaxRenders == 3

\* The names _generate_sound is called with: the catalogue's and one that
\* has no branch.
RenderNames == TickSoundNames \cup {"Gong"}

\* Nothing rendered yet, the shared generator in any state.
InitRender ==
    /\ InitFields /\ NoRun /\ player_up = TRUE /\ watching = FALSE
    /\ rng \in RngStates
    /\ files = <<>>
    /\ first = <<>>
    /\ log = <<>>

\* The files and the generator become g after a render of name.
Renders(g, name) ==
    /\ Len(log) < MaxRenders
    /\ rng' = g.rng
    /\ files' = g.files
    /\ first' = [q \in DOMAIN g.files |->
                    IF q \in DOMAIN first THEN first[q] ELSE g.files[q]]
    /\ log' = Append(log, name)
    /\ UNCHANGED <<fields, player_up, crashed, history, runvars>>

GenerateSound ==
    \E name \in RenderNames :
        Renders(_generate_sound([rng |-> rng, files |-> files], name,
                                WavPath(name)), name)

GenerateBell ==
    Renders(_generate_bell_sound([rng |-> rng, files |-> files], _bell_path),
            "bell")

NextRender == GenerateSound \/ GenerateBell

SpecRender == InitRender /\ [][NextRender]_vars

\* ------------------------------------------------------------- claims

\* The nominal duration of a phase: work 1500, short break 300, long
\* break 900 seconds.
NominalDuration(p) ==
    IF p = "work" THEN 1500 ELSE IF p = "short_break" THEN 300 ELSE 900

\* The phase that follows p when done work phases were completed before.
Following(p, done) ==
    IF p # "work" THEN "work"
    ELSE IF (done + 1) % 4 = 0 THEN "long_break" ELSE "short_break"

\* The step performed the whole phase advance.
Advanced ==
    /\ phase' = Following(phase, session_count)
    /\ session_count' = IF phase = "work" THEN session_count + 1
                        ELSE session_count
    /\ ~ is_running'
    /\ time_left' = NominalDuration(phase')

\* C1: in a countdown run, a tick callback that leaves time_left > 0 hands
\* the player the selected preset's file once and no bell, and the callback
\* that takes time_left to 0 hands over the bell once and no tick file; so
\* a run of n callbacks from time_left = n gives 1 bell and n - 1 ticks
\* (1 and 1499 from the fresh work phase).
C1_TickOrBell ==
    calls > 0 =>
        IF calls < start.time_left
        THEN /\ played = <<_sound_paths[tick_sound]>>
             /\ tick_signals = calls
             /\ bell_signals = 0
        ELSE /\ played = <<_bell_path>>
             /\ bell_signals = 1
             /\ tick_signals = calls - 1

\* C2: between handlers 0 <= time_left <= duration(phase), and time_left
\* is never 0.
C2_TimeLeftInRange ==
    /\ 0 <= time_left
    /\ time_left <= NominalDuration(phase)
    /\ time_left # 0

\* C2 witness: a tick callback took time_left from 1 to 0 and the timer
\* stands at the full short break.
C2_Witness ==
    /\ op = "tick"
    /\ before.time_left = 1
    /\ Count(played, _bell_path) = 1
    /\ phase = "short_break"
    /\ time_left = 300

\* C3: every phase advance (the bell is played: by a tick callback or by
\* skip) from work adds one to session_count and enters the long break
\* exactly when the new count is a multiple of 4, else the short break;
\* from a break it enters work with the count kept; running ends false
\* and time_left is the new phase's duration.
C3_AdvanceProcedure ==
    [][(Tick \/ Skip) /\ Count(played', _bell_path) > 0 => Advanced]_vars

\* C3 witness: the countdown of the fourth work phase ended and the long
\* break was entered.
C3_Witness ==
    /\ op = "tick"
    /\ before.time_left = 1
    /\ Count(played, _bell_path) = 1
    /\ phase = "long_break"
    /\ session_count = 4
    /\ time_left = 900
    /\ ~ is_running

\* C4: the k-th break entered since the start is the long break when k is
\* a multiple of 4 and the short break otherwise; a phase change goes from
\* work to a break or from a break to work, never from a break to a break.
C4_BreakPattern ==
    [][/\ \A k \in 1..Len(breaks') :
            breaks'[k] = IF k % 4 = 0 THEN "long_break" ELSE "short_break"
       /\ phase' # phase => ((phase = "work") # (phase' = "work"))
       /\ phase' \in {"short_break", "long_break"} /\ phase' # phase
            => Len(breaks') = session_count']_vars

\* C4 witness: eight work phases were completed, the last of them by the
\* countdown, and the fourth and eighth breaks are long breaks.
C4_Witness ==
    /\ op = "tick"
    /\ before.time_left = 1
    /\ Len(breaks) = 8
    /\ breaks[4] = "long_break"
    /\ breaks[8] = "long_break"
    /\ phase = "long_break"

\* C5: skip, whatever time_left and running are, performs the phase
\* advance from the same phase and session_count, plays the bell once and
\* nothing else, and leaves the timer stopped.
C5_SkipAdvances ==
    [][Skip => /\ Advanced
               /\ played' = <<_bell_path>>
               /\ _tick_timer' = None
               /\ live_timers' = 0]_vars

\* C5 witness: skip at time_left = 1499 of the running first work phase
\* entered the short break with one session done.
C5_Witness ==
    /\ op = "skip"
    /\ before = [time_left |-> 1499, is_running |-> TRUE]
    /\ phase = "short_break"
    /\ session_count = 1
    /\ time_left = 300
    /\ ~ is_running

\* C6: reset sets running false and time_left to the current phase's
\* duration, keeps phase, session_count and the selected preset, and plays
\* nothing.
C6_ResetFrame ==
    [][ResetTimer => /\ ~ is_running'
                     /\ time_left' = NominalDuration(phase)
                     /\ UNCHANGED <<phase, session_count, tick_sound>>
                     /\ played' = <<>>]_vars

\* C6 witness: reset ran in the running short break at time_left = 40 and
\* the timer shows 300.
C6_Witness ==
    /\ op = "reset_timer"
    /\ before = [time_left |-> 40, is_running |-> TRUE]
    /\ phase = "short_break"
    /\ session_count = 1
    /\ time_left = 300
    /\ tick_sound = "Snap"

\* C7: toggle flips running and keeps time_left, phase, session_count and
\* the selected preset; a second toggle gives back the state before the
\* first, the timer handle included.
C7_ToggleFrame ==
    [][ToggleTimer =>
        /\ is_running' = ~ is_running
        /\ UNCHANGED <<time_left, phase, session_count, tick_sound, _tick_path>>
        /\ LET back == action_toggle_timer(Self')
           IN  /\ back.is_running = is_running
               /\ back._tick_timer = _tick_timer
               /\ back.live_timers = live_timers
               /\ back.time_left = time_left
               /\ back.phase = phase
               /\ back.session_count = session_count
               /\ back.tick_sound = tick_sound]_vars

\* C7 witness: the countdown was paused part-way through a break.
C7_Witness ==
    /\ op = "toggle_timer"
    /\ before = [time_left |-> 40, is_running |-> TRUE]
    /\ ~ is_running
    /\ phase = "long_break"
    /\ time_left = 40

\* C8: in a run of tick callbacks from time_left = n, after k < n of them
\* time_left = n - k with phase, session_count and running as at the
\* start, and the n-th performs the phase advance; no callback follows it.
C8_NoDrift ==
    /\ calls <= start.time_left
    /\ calls < start.time_left =>
        /\ time_left = start.time_left - calls
        /\ phase = start.phase
        /\ session_count = start.session_count
        /\ is_running
    /\ calls = start.time_left =>
        /\ phase = Following(start.phase, start.session_count)
        /\ session_count = IF start.phase = "work"
                           THEN start.session_count + 1
                           ELSE start.session_count
        /\ time_left = NominalDuration(phase)
        /\ ~ is_running

\* C8 witness: 1500 callbacks from the fresh work phase ended in the
\* short break at 300 with one session done.
C8_Witness ==
    /\ start = [phase |-> "work", session_count |-> 0, time_left |-> 1500]
    /\ calls = 1500
    /\ phase = "short_break"
    /\ time_left = 300
    /\ session_count = 1

\* C9: a play request that fails is not propagated: the tick callback or
\* skip still ends without an exception, with the decrement, or the whole
\* phase advance, done, and time_left not left at 0.
C9_PlayFailureIgnored ==
    [][Tick \/ Skip =>
        /\ ~ crashed'
        /\ time_left' # 0
        /\ IF op' = "tick" /\ time_left > 1
           THEN time_left' = time_left - 1
           ELSE Advanced]_vars

\* C10: a preset name that is in no catalogue is rejected: the selected
\* preset never becomes such a name.
C10_InvalidPresetRejected == tick_sound \in TickSoundNames

\* C11: picking a preset of the catalogue makes it the selected preset,
\* keeps phase, time_left, running and session_count, and plays nothing;
\* every tick callback that leaves time_left > 0 plays the file of the
\* preset selected at that moment, the most recently picked one.
C11_PresetTakesEffect ==
    [][/\ \A name \in TickSoundNames :
            PickOne(name) =>
                /\ tick_sound' = name
                /\ UNCHANGED <<phase, time_left, is_running, session_count>>
                /\ played' = <<>>
       /\ Tick /\ time_left > 1 => played' = <<WavPath(tick_sound)>>]_vars

\* C11 witness: with Snap picked in place of the initial Metronome, a tick
\* callback of the running countdown played Snap's file.
C11_Witness ==
    /\ op = "tick"
    /\ before.time_left > 1
    /\ tick_sound = "Snap"
    /\ played = <<WavPath("Snap")>>

\* C12: a tick-timer handle exists exactly while running is true, and the
\* live interval timers are one while running and none otherwise.
C12_Lockstep ==
    /\ (_tick_timer # None) <=> is_running
    /\ live_timers = IF is_running THEN 1 ELSE 0
    /\ live_timers <= 1

\* C12 witness: a tick callback ended the countdown and stopped its own
\* timer.
C12_Witness ==
    /\ op = "tick"
    /\ before = [time_left |-> 1, is_running |-> TRUE]
    /\ ~ is_running
    /\ _tick_timer = None
    /\ live_timers = 0

\* C13: session_count changes only in a step that leaves the work phase (a
\* tick callback at time_left = 1, or skip), and then by exactly +1; every
\* step that leaves work adds 1; steps entering work keep it.
C13_SessionCount ==
    [][/\ session_count' # session_count =>
            /\ session_count' = session_count + 1
            /\ phase = "work" /\ phase' # "work"
            /\ (Tick /\ time_left = 1) \/ Skip
       /\ phase = "work" /\ phase' # "work" =>
            session_count' = session_count + 1
       /\ phase' = "work" => session_count' = session_count]_vars

\* C13 witness: the countdown of the second work phase ended, the count
\* went from 1 to 2.
C13_Witness ==
    /\ op = "tick"
    /\ before.time_left = 1
    /\ Len(breaks) = 2
    /\ phase = "short_break"
    /\ session_count = 2

\* C17: the tick callback runs only in states where running is true, and
\* time_left is decremented by nothing else; a handler that leaves running
\* false leaves no live timer and no callback that is due.
C17_TicksOnlyWhileRunning ==
    [][/\ Tick => is_running
       /\ time_left' < time_left /\ phase' = phase => Tick /\ is_running
       /\ (ToggleTimer \/ ResetTimer \/ Skip \/ Tick) /\ ~ is_running' =>
            ~ due' /\ live_timers' = 0]_vars

\* C17 witness: the countdown was paused while a callback was due, and the
\* callback is due no longer.
C17_Witness ==
    /\ op = "toggle_timer"
    /\ was_due
    /\ before.is_running
    /\ ~ is_running
    /\ ~ due

\* C18: every phase change ends with running false, no timer and no
\* callback due; running becomes true only by toggle; while running is
\* false time_left changes only by reset or skip, and the tick callback
\* runs only while running is true: two ends of a countdown have a toggle
\* between them.
C18_NoAutoStart ==
    [][/\ phase' # phase =>
            ~ is_running' /\ _tick_timer' = None /\ live_timers' = 0 /\ ~ due'
       /\ is_running' /\ ~ is_running => ToggleTimer
       /\ ~ is_running /\ time_left' # time_left => ResetTimer \/ Skip
       /\ Tick => is_running]_vars

\* C18 witness: the short break that followed the first work phase stood
\* at its full duration until a toggle started it.
C18_Witness ==
    /\ op = "toggle_timer"
    /\ is_running
    /\ phase = "short_break"
    /\ time_left = 300
    /\ session_count = 1

\* C19: the file played on ticks is the file rendered for the selected
\* preset, it is never the bell's file, what a tick callback plays as
\* its tick is that file, and the rendered files are the ones written
\* during construction, each holding what it held then.
C19_TickPathOfSelection ==
    /\ tick_sound \in DOMAIN _sound_paths
    /\ _tick_path = _sound_paths[tick_sound]
    /\ _tick_path # _bell_path
    /\ _tick_path \in DOMAIN files
    /\ DOMAIN files = {_sound_paths[n] : n \in TickSoundNames} \cup {_bell_path}
    /\ files = first
    /\ op = "tick" /\ played # <<>> =>
        /\ played[Len(played)] = WavPath(tick_sound)
        /\ played[Len(played)] # _bell_path

\* C19 witness: in the long break a tick callback played the file of the
\* selected preset, Metronome.
C19_Witness ==
    /\ op = "tick"
    /\ tick_sound = "Metronome"
    /\ played = <<WavPath("Metronome")>>
    /\ phase = "long_break"

\* The i-th value the generator draws after random.seed(42), by the
\* generator's recurrence.
RECURSIVE SeedDraw(_)
SeedDraw(i) == IF i = 0 THEN Seeded(SEED) ELSE RngNext(SeedDraw(i - 1))

\* The preset a file was rendered for.
PresetOf(path) == IF path = _bell_path THEN BellPreset ELSE Presets[path[2]]

\* C15: a file rendered again holds exactly what its first render held,
\* whatever was rendered in between and whatever state the generator was
\* in before, and the noise in a preset's samples is the sequence drawn
\* from a generator seeded with 42 (no noise at all where the preset draws
\* none).
C15_RenderDeterministic ==
    \A q \in DOMAIN files :
        /\ q \in DOMAIN first
        /\ files[q] = first[q]
        /\ \A i \in 1..Len(files[q].head) :
              files[q].head[i].noise =
                  IF PresetOf(q).noise THEN SeedDraw(i) ELSE -1

\* C15 witness: Typewriter, a preset with noise, was rendered, then Snap,
\* then Typewriter again, and the draws have moved the generator off the
\* seeded state.
C15_Witness ==
    /\ log = <<"Typewriter", "Snap", "Typewriter">>
    /\ rng # Seeded(SEED)
    /\ WavPath("Typewriter") \in DOMAIN files
    /\ Len(files[WavPath("Typewriter")].head) = MaxFollowed

\* The integer nearest to num / den, a tie going to the even neighbour.
Round(num, den) ==
    LET q == num \div den
        r == num % den
    IN  IF 2 * r < den THEN q
        ELSE IF 2 * r > den THEN q + 1
        ELSE IF q % 2 = 0 THEN q ELSE q + 1

\* C16 as stated: every rendered file has round(duration * sample_rate)
\* samples.
C16_RoundedCount ==
    \A q \in DOMAIN files :
        files[q].n_samples = Round(sample_rate * PresetOf(q).ms, 1000)

\* C16, amended: every rendered file has the number of samples that
\* duration * sample_rate truncates to, the largest integer not above the
\* product: 1543, 661 and 1102 for the products 1543.5, 661.5 and 1102.5,
\* and 44100 for the bell.
C16_TruncatedCount ==
    \A q \in DOMAIN files :
        LET n == files[q].n_samples
            product == sample_rate * PresetOf(q).ms
        IN  /\ 1000 * n <= product
            /\ product < 1000 * (n + 1)

\* C16 witness: the three presets whose product ends in one half have been
\* rendered, with 1543, 661 and 1102 samples.
C16_Witness ==
    /\ DOMAIN files =
          {WavPath("Mechanical Clock"), WavPath("Soft Click"), WavPath("Metronome")}
    /\ files[WavPath("Mechanical Clock")].n_samples = 1543
    /\ files[WavPath("Soft Click")].n_samples = 661
    /\ files[WavPath("Metronome")].n_samples = 1102

\* The six combinations of a phase and the running flag.
Combos == {"work", "short_break", "long_break"} \X BOOLEAN

\* C14: only the six combinations of phase and running are visited, and
\* in every reachable state a handler or the timer can take a step that
\* leaves the current combination (and so changes the state).
C14_NoneTerminal ==
    /\ seen \subseteq Combos
    /\ <<phase, is_running>> \in seen
    /\ ENABLED <<Next>>_<<phase, is_running>>

\* C14 witness: one behaviour from the initial state has visited all six
\* combinations.
C14_Witness == watching /\ seen = Combos

====
